---- MODULE Spec2Model ----
(***************************************************************************)
(* PayloadPack native core: payload.rs (inspect_payload, extract_payload)  *)
(* as a state machine.  One run of inspect_payload or extract_payload is   *)
(* stepped through the code's numbered steps; every early return of the    *)
(* code is a branch of the action that models the step.                    *)
(*                                                                         *)
(* Numbers.  TLC's integers are 32 bits wide, so                           *)
(*  - header fields are byte sequences decoded by a real big-endian        *)
(*    positional sum; the inputs keep the decoded values below 2^31;       *)
(*  - a u64 of the manifest (size, data_offset, data_length) is the exact  *)
(*    value  hi * 2^62 + lo  written [hi, lo] with hi in 0..3 and a small  *)
(*    lo, so that a sum leaves the u64 range exactly when its hi part      *)
(*    reaches 4 (the lo parts of the model never carry).                   *)
(***************************************************************************)
EXTENDS Integers, Sequences, FiniteSets, TLC

VARIABLES
    path,           \* input: what payload_path denotes
    open_result,    \* input: outcome of File::open on an existing file
    file,           \* input: the payload file (length, header bytes, body)
    has_callback,   \* input: progress_callback.is_some()
    entry,          \* input: the function the host called ("core": payload.rs directly)
    path_str,       \* input: the characters of the path argument
    jstring,        \* JNI adapter: the string handed back to the host
    run,            \* host: 1 in the first call, 2 in a call repeated after success
    first,          \* host: what the first call left (files, result), once repeated
    lines,          \* properties: the lines of payload_properties.txt not yet read
    props,          \* properties: the PayloadProperties being filled
    handles,        \* the files the call holds open
    build,          \* what the run has revealed of the build (overflow checks, usize)
    pc,             \* position in the code
    pos,            \* inspect: cursor of the open payload file
    max_read,       \* ghost: highest file offset a read was issued up to
    hdr,            \* inspect locals: magic, version, manifest_size, metadata_signature_size
    manifest_buf,   \* inspect: length of manifest_data once allocated, -1 before
    manifest,       \* inspect: decoded DeltaArchiveManifest.partitions
    ret,            \* return value of inspect_payload
    out_dir_exists, \* file system: output_dir exists
    disk,           \* file system: partition name -> bytes of <name>.img, or NoFile
    x,              \* extract locals (data_offset, manifest, totals, loop indices)
    writer,         \* extract: the open BufWriter (name, buffered bytes) or NoWriter
    extracted,      \* extract: Vec<ExtractedPartition>
    events,         \* progress callback invocations, in order
    warnings,       \* log::warn! records of extract_payload, in order
    result          \* return value of extract_payload

inputVars == <<path, open_result, file, has_callback, entry, path_str>>
inspVars  == <<pos, max_read, hdr, manifest_buf, manifest, ret>>
extVars   == <<out_dir_exists, disk, x, writer, extracted, events, warnings, result>>
hostVars  == <<jstring, run, first>>
propVars  == <<lines, props>>
vars      == <<inputVars, hostVars, propVars, build, pc, inspVars, extVars, handles>>

----------------------------------------------------------------------------
(* Bounds of the model *)

\* longest manifest.partitions list
MaxParts == 2
\* bytes of data blob in a well-formed model file
BlobLen == 6

----------------------------------------------------------------------------
(* Program constants *)

PAYLOAD_MAGIC == <<67, 114, 65, 85>>
HEADER_SIZE == 24
MAX_MANIFEST_SIZE == 100 * 1024 * 1024
\* 2^64 / 2^62: a u64 written [hi, lo] has hi < U64_HI_RANGE
U64_HI_RANGE == 4
I32_MAX == 2147483647
REPLACEMENT_CHARACTER == 65533

----------------------------------------------------------------------------
(* Bytes and integers *)

RECURSIVE from_be_bytes(_)
from_be_bytes(b) ==
    IF b = <<>> THEN 0
    ELSE from_be_bytes(SubSeq(b, 1, Len(b) - 1)) * 256 + b[Len(b)]

\* the writer of a payload: n as w big-endian bytes
RECURSIVE to_be_bytes(_, _)
to_be_bytes(n, w) ==
    IF w = 0 THEN <<>> ELSE Append(to_be_bytes(n \div 256, w - 1), n % 256)

\* String::from_utf8_lossy on ASCII bytes and bytes that no UTF-8 sequence holds
from_utf8_lossy(b) ==
    [i \in 1..Len(b) |-> IF b[i] < 128 THEN b[i] ELSE REPLACEMENT_CHARACTER]

\* a u64 of the manifest: the value h * 2^62 + l, |l| small
U64(h, l) == [hi |-> h, lo |-> l]
Small(n) == U64(0, n)
Zero64 == Small(0)
\* u64::MAX = 2^64 - 1
U64_MAX == U64(U64_HI_RANGE, -1)
\* the mathematical sum of two u64; it is a u64 iff it is below 2^64
MathAdd(a, b) == U64(a.hi + b.hi, a.lo + b.lo)
InU64(v) == v.hi < U64_HI_RANGE \/ (v.hi = U64_HI_RANGE /\ v.lo < 0)
\* the sum modulo 2^64 (overflow checks off)
wrapping_add(a, b) ==
    LET s == MathAdd(a, b) IN IF InU64(s) THEN s ELSE U64(s.hi - U64_HI_RANGE, s.lo)
\* v >= 2^63: the value is negative when cast to i64 (off64_t)
AboveI64(v) == v.hi > 2 \/ (v.hi = 2 /\ v.lo >= 0)

\* Option<T>
None == [some |-> FALSE]
Some(v) == [some |-> TRUE, v |-> v]
unwrap_or(o, d) == IF o.some THEN o.v ELSE d

\* String comparison (Ord for str): lexicographic on the code units
RECURSIVE str_lt(_, _)
str_lt(a, b) ==
    IF b = <<>> THEN FALSE
    ELSE IF a = <<>> THEN TRUE
    ELSE IF a[1] # b[1] THEN a[1] < b[1]
    ELSE str_lt(Tail(a), Tail(b))

----------------------------------------------------------------------------
(* The manifest (crate::proto, prost) *)

REPLACE == "REPLACE"
REPLACE_BZ == "REPLACE_BZ"
REPLACE_XZ == "REPLACE_XZ"
ZERO == "ZERO"

InstallOperation(t, off, len) == [type |-> t, data_offset |-> off, data_length |-> len]
PartitionUpdate(n, info, ops) ==
    [partition_name |-> n, new_partition_info |-> info, operations |-> ops]
\* new_partition_info: None, Some(info) with info.size None, or Some(info) with a size
Info(size) == Some([size |-> size])

\* what the manifest region of a file holds: an encoded partition list, or
\* bytes that are no protobuf message
Body(parts) == [valid |-> TRUE, partitions |-> parts]
Garbage == [valid |-> FALSE, partitions |-> <<>>]

RECURSIVE PartsLen(_)
PartsLen(m) ==
    IF m = <<>> THEN 0 ELSE 4 + Len(Head(m).operations) + PartsLen(Tail(m))

\* bytes the encoded manifest takes in the file (an abstract length of the
\* protobuf wire format: grows with the partitions and their operations)
EncodedLen(body) == IF body.valid THEN PartsLen(body.partitions) ELSE 7

\* DeltaArchiveManifest::decode of the first n manifest bytes of file f: the
\* empty buffer is the empty message; the whole encoding decodes to what was
\* encoded; anything else does not decode
decode(f, n) ==
    IF n = 0 THEN Some(<<>>)
    ELSE IF n = EncodedLen(f.body) /\ f.body.valid THEN Some(f.body.partitions)
    ELSE None

\* and_then(|info| info.size).unwrap_or(0)
declared_size(p) ==
    IF p.new_partition_info.some
    THEN unwrap_or(p.new_partition_info.v.size, Zero64)
    ELSE Zero64

----------------------------------------------------------------------------
(* Errors *)

Err(k) == [ok |-> FALSE, kind |-> k]
ErrMagic(s, v) == [ok |-> FALSE, kind |-> "InvalidMagic", s |-> s, v |-> v]
ErrNum(k, v) == [ok |-> FALSE, kind |-> k, v |-> v]
ErrText(k, t) == [ok |-> FALSE, kind |-> k, text |-> t]
NoReturn == [ok |-> FALSE, kind |-> "none"]

\* impl From<std::io::Error> for PayloadError
from_io_error(kind) ==
    CASE kind = "NotFound" -> ErrText("FileNotFound", "os")
      [] kind = "PermissionDenied" -> ErrText("PermissionDenied", "os")
      [] kind = "UnexpectedEof" -> ErrText("UnexpectedEof", "header or manifest")
      [] OTHER -> ErrText("Io", "os")

----------------------------------------------------------------------------
(* Inputs *)

NameA == <<97>>
NameB == <<98>>
NameAB == <<97, 98>>
\* "../a": output_dir.join("../a.img") names a file of the parent directory
NameEscape == <<46, 46, 47, 97>>

\* 2^63
Big == U64(2, 0)

\* the payload file written for body b: a 24-byte header with the given
\* fields, the encoded body, sig_len bytes of signature, then the data blob
PayloadFile(n, mg, ver, msize, sig, b) ==
    [len |-> n,
     magic |-> mg,
     version |-> to_be_bytes(ver, 8),
     manifest_size |-> to_be_bytes(msize, 8),
     metadata_signature_size |-> to_be_bytes(sig, 4),
     body |-> b]

WellFormed(b, sig) ==
    PayloadFile(HEADER_SIZE + EncodedLen(b) + sig + BlobLen, PAYLOAD_MAGIC, 2,
                EncodedLen(b), sig, b)

\* scenario 1 of the tests: one partition "boot"-like, size 0, no operations
SimpleBody == Body(<<PartitionUpdate(NameB, Info(Some(Zero64)), <<>>)>>)

Magics == {PAYLOAD_MAGIC, <<67, 114, 65, 86>>, <<85, 65, 114, 67>>, <<67, 255, 65, 85>>}
\* 2 read little-endian from 00 00 00 00 02 00 00 00 is 2; big-endian it is 2^25
Versions == {2, 3, 0, 2 * 256 * 256 * 256}
SigSizes == {0, 3, 50}

ManifestSizes(b) ==
    {EncodedLen(b), 0, MAX_MANIFEST_SIZE, MAX_MANIFEST_SIZE + 1, EncodedLen(b) + 3 + BlobLen + 1}

\* files whose header is wrong in every way the reader checks; the file holds
\* no signature bytes or 3, whatever its header declares
HeaderFiles ==
    { PayloadFile(n, mg, ver, ms, sig, b) :
        n \in {0, HEADER_SIZE - 1}, mg \in {PAYLOAD_MAGIC}, ver \in {2},
        ms \in {0}, sig \in {0}, b \in {SimpleBody} }
    \cup
    UNION { { PayloadFile(HEADER_SIZE + EncodedLen(b) + actual + BlobLen, mg, ver, ms, sig, b) :
                mg \in Magics, ver \in Versions, ms \in ManifestSizes(b), sig \in SigSizes }
            : b \in {SimpleBody, Garbage}, actual \in {0, 3} }

RECURSIVE SeqsUpTo(_, _)
SeqsUpTo(S, n) ==
    IF n = 0 THEN {<<>>}
    ELSE LET shorter == SeqsUpTo(S, n - 1)
         IN shorter \cup {Append(q, e) : q \in {r \in shorter : Len(r) = n - 1}, e \in S}

\* partitions of the inspection runs: names that tie and that are prefixes of
\* each other, every shape of new_partition_info
InspectInfos ==
    {None, Info(None), Info(Some(Zero64)), Info(Some(Small(2))), Info(Some(Small(4))),
     Info(Some(Big)), Info(Some(U64_MAX))}
InspectParts ==
    { PartitionUpdate(n, i, <<>>) : n \in {NameA, NameB, NameAB}, i \in InspectInfos }
InspectManifests == SeqsUpTo(InspectParts, MaxParts)

Inputs(p, o, f, cb) == [path |-> p, open_result |-> o, file |-> f, has_callback |-> cb]

PathInputs ==
    { Inputs(p, "ok", WellFormed(SimpleBody, 0), cb) :
        p \in {"empty", "missing", "dir"}, cb \in BOOLEAN }
    \cup
    { Inputs("file", o, WellFormed(SimpleBody, 0), cb) :
        o \in {"NotFound", "PermissionDenied", "Other"}, cb \in BOOLEAN }

InspectInputs ==
    PathInputs
    \cup { Inputs("file", "ok", f, FALSE) : f \in HeaderFiles }
    \cup { Inputs("file", "ok", WellFormed(Body(m), 0), FALSE) : m \in InspectManifests }

----------------------------------------------------------------------------
(* payload_properties.txt *)

\* most lines of a payload_properties.txt
MaxLines == 2

\* str::split_once(delimiter): the text before and behind the first delimiter
split_once(str, delimiter) ==
    IF \E i \in 1..Len(str) : str[i] = delimiter
    THEN LET i == CHOOSE i \in 1..Len(str) :
                    str[i] = delimiter /\ \A j \in 1..(i - 1) : str[j] # delimiter
         IN Some(<<SubSeq(str, 1, i - 1), SubSeq(str, i + 1, Len(str))>>)
    ELSE None

\* str::trim(): without the white space at both ends
RECURSIVE trim(_)
trim(str) ==
    IF str = <<>> THEN str
    ELSE IF Head(str) \in {32, 9} THEN trim(Tail(str))
    ELSE IF str[Len(str)] \in {32, 9} THEN trim(SubSeq(str, 1, Len(str) - 1))
    ELSE str

\* str::parse::<u64>().ok(): decimal digits behind an optional +; up to 9
\* digits are valued here, more than 20 digits starting with a digit other
\* than 0 are above u64::MAX (the lines of the model hold no other number)
parse_u64(str) ==
    LET digits == IF str # <<>> /\ str[1] = 43 THEN Tail(str) ELSE str
        RECURSIVE value(_)
        value(d) ==
            IF d = <<>> THEN 0
            ELSE value(SubSeq(d, 1, Len(d) - 1)) * 10 + (d[Len(d)] - 48)
    IN IF digits = <<>> \/ \E i \in 1..Len(digits) : digits[i] \notin 48..57 THEN None
       ELSE IF Len(digits) > 20 /\ digits[1] # 48 THEN None
       ELSE Some(value(digits))

\* lines 566-576: what one line of the file does to props
read_line(p, line) ==
    LET kv == split_once(line, 61) IN
    IF ~kv.some THEN p
    ELSE LET key == trim(kv.v[1])
             value == trim(kv.v[2])
         IN CASE key = <<70, 73, 76, 69, 95, 72, 65, 83, 72>> ->
                    [p EXCEPT !.file_hash = Some(value)]
              [] key = <<70, 73, 76, 69, 95, 83, 73, 90, 69>> ->
                    [p EXCEPT !.file_size = parse_u64(value)]
              [] key = <<77, 69, 84, 65, 68, 65, 84, 65, 95, 72, 65, 83, 72>> ->
                    [p EXCEPT !.metadata_hash = Some(value)]
              [] key = <<77, 69, 84, 65, 68, 65, 84, 65, 95, 83, 73, 90, 69>> ->
                    [p EXCEPT !.metadata_size = parse_u64(value)]
              [] OTHER -> p

\* the lines the files of the model are made of, as character codes
PropertyLines ==
    <<
       \* 1: FILE_SIZE=12
       <<70, 73, 76, 69, 95, 83, 73, 90, 69, 61, 49, 50>>,
       \* 2: FILE_SIZE=x   (value not a number)
       <<70, 73, 76, 69, 95, 83, 73, 90, 69, 61, 120>>,
       \* 3: FILE_SIZE=
       <<70, 73, 76, 69, 95, 83, 73, 90, 69, 61>>,
       \* 4:  FILE_SIZE = 7    (blanks around key and value)
       <<32, 70, 73, 76, 69, 95, 83, 73, 90, 69, 32, 61, 32, 55, 32>>,
       \* 5: FILE_SIZE=1=2   (the value is 1=2)
       <<70, 73, 76, 69, 95, 83, 73, 90, 69, 61, 49, 61, 50>>,
       \* 6: FILE_SIZE=-1
       <<70, 73, 76, 69, 95, 83, 73, 90, 69, 61, 45, 49>>,
       \* 7: FILE_SIZE=999999999999999999999   (21 digits: above u64::MAX)
       <<70, 73, 76, 69, 95, 83, 73, 90, 69, 61, 57, 57, 57, 57, 57, 57, 57, 57,
         57, 57, 57, 57, 57, 57, 57, 57, 57, 57, 57, 57, 57>>,
       \* 8: METADATA_SIZE=5
       <<77, 69, 84, 65, 68, 65, 84, 65, 95, 83, 73, 90, 69, 61, 53>>,
       \* 9: METADATA_SIZE=5k
       <<77, 69, 84, 65, 68, 65, 84, 65, 95, 83, 73, 90, 69, 61, 53, 107>>,
       \* 10: FILE_HASH=ab
       <<70, 73, 76, 69, 95, 72, 65, 83, 72, 61, 97, 98>>,
       \* 11: METADATA_HASH=
       <<77, 69, 84, 65, 68, 65, 84, 65, 95, 72, 65, 83, 72, 61>>,
       \* 12: file_size=3   (keys are matched as written)
       <<102, 105, 108, 101, 95, 115, 105, 122, 101, 61, 51>>,
       \* 13: FILE_SIZE   (no =)
       <<70, 73, 76, 69, 95, 83, 73, 90, 69>>,
       \* 14: (an empty line)
       <<>>
    >>


----------------------------------------------------------------------------
(* State *)

NoString == [kind |-> "none", chars |-> <<>>]
NoRun == [done |-> FALSE]
\* PayloadProperties::default()
DefaultProperties ==
    [file_hash |-> None, file_size |-> None, metadata_hash |-> None, metadata_size |-> None]
NoWriter == [open |-> FALSE, name |-> <<>>, buf |-> <<>>]
NoFile == [exists |-> FALSE, bytes |-> <<>>]
NoHeader == [magic |-> <<>>, version |-> 0, manifest_size |-> 0, metadata_signature_size |-> 0]
NoLocals ==
    [data_offset |-> 0, partitions |-> <<>>, total_bytes |-> Zero64,
     bytes_processed |-> Zero64, part |-> 0, op |-> 0]
AnyBuild == [overflow_checks |-> "any", pointer_width |-> "any"]

InitWith(in) ==
    /\ path = in.path
    /\ open_result = in.open_result
    /\ file = in.file
    /\ has_callback = in.has_callback
    /\ build = AnyBuild
    /\ pos = 0
    /\ max_read = 0
    /\ hdr = NoHeader
    /\ manifest_buf = -1
    /\ manifest = <<>>
    /\ ret = NoReturn
    /\ out_dir_exists \in BOOLEAN
    /\ disk = [n \in {NameA, NameB, NameAB, NameEscape} |-> NoFile]
    /\ x = NoLocals
    /\ writer = NoWriter
    /\ extracted = <<>>
    /\ events = <<>>
    /\ warnings = <<>>
    /\ result = NoReturn
    /\ props = DefaultProperties
    /\ handles = {}

\* the path argument of a call of payload.rs itself: "" or "a"
PlainPath(p) == IF p = "empty" THEN <<>> ELSE NameA

\* inspect_payload / extract_payload called directly, not through JNI
Direct(in) ==
    /\ pc = "idle"
    /\ entry = "core"
    /\ path_str = PlainPath(in.path)
    /\ jstring = NoString
    /\ run = 1
    /\ first = NoRun
    /\ lines = <<PropertyLines[12]>>

InitInspect == \E in \in InspectInputs : InitWith(in) /\ Direct(in)

----------------------------------------------------------------------------
(* inspect_payload *)

\* mutant of Return: file outlives the call
Return_keeping(r) == ret' = r /\ pc' = "returned" /\ handles' = handles
\* return Err(e) / Ok(v) of inspect_payload: file goes out of scope
Return(r) == ret' = r /\ pc' = "returned" /\ handles' = handles \ {"file"}

\* file.read_exact(&mut buf) for n bytes at the cursor
CanRead(n) == pos + n <= file.len

\* mutant of magic_ok: only the first three bytes are compared
magic_ok_prefix(m) == SubSeq(m, 1, 3) = SubSeq(PAYLOAD_MAGIC, 1, 3)
magic_ok(m) == m = PAYLOAD_MAGIC
\* mutant of version_ok: every version from 2 on is taken
version_ok_at_least(v) == v >= 2
version_ok(v) == v = 2
\* mutant of manifest_size_ok: the limit itself is refused too
manifest_size_ok_strict(n) == n < MAX_MANIFEST_SIZE
manifest_size_ok(n) == ~(n > MAX_MANIFEST_SIZE)
file_size_ok(n) == ~(n < HEADER_SIZE)

\* the call is entered
Begin ==
    /\ pc = "idle"
    /\ pc' = "check_path"
    /\ UNCHANGED <<inputVars, hostVars, propVars, build, inspVars, extVars, handles>>

\* lines 180-204: empty path, exists(), is_file()
CheckPath ==
    /\ pc = "check_path"
    /\ CASE path = "empty" -> Return(Err("EmptyPath"))
         [] path = "missing" -> Return(ErrText("FileNotFound", "File does not exist"))
         [] path = "dir" -> Return(ErrText("FileNotFound", "Path is not a file"))
         [] OTHER -> pc' = "open" /\ ret' = ret /\ handles' = handles
    /\ UNCHANGED <<inputVars, hostVars, propVars, build, pos, max_read, hdr, manifest_buf, manifest, extVars>>

\* lines 207-236: File::open, metadata().len(), the minimum size
OpenFile ==
    /\ pc = "open"
    /\ IF open_result # "ok" THEN Return(from_io_error(open_result))
       ELSE IF ~file_size_ok(file.len)
            THEN Return([ok |-> FALSE, kind |-> "FileTooSmall", v |-> file.len, min |-> HEADER_SIZE])
       ELSE pc' = "magic" /\ ret' = ret /\ handles' = handles \cup {"file"}
    /\ UNCHANGED <<inputVars, hostVars, propVars, build, pos, max_read, hdr, manifest_buf, manifest, extVars>>

\* lines 242-266
ReadMagic ==
    /\ pc = "magic"
    /\ IF ~CanRead(4)
       THEN Return(from_io_error("UnexpectedEof")) /\ UNCHANGED <<pos, hdr>>
       ELSE /\ pos' = pos + 4
            /\ hdr' = [hdr EXCEPT !.magic = file.magic]
            /\ IF ~magic_ok(file.magic)
               THEN Return(ErrMagic(from_utf8_lossy(file.magic), from_be_bytes(file.magic)))
               ELSE pc' = "version" /\ ret' = ret /\ handles' = handles
    /\ max_read' = pos + 4
    /\ UNCHANGED <<inputVars, hostVars, propVars, build, manifest_buf, manifest, extVars>>

\* lines 274-302
ReadVersion ==
    /\ pc = "version"
    /\ IF ~CanRead(8)
       THEN Return(from_io_error("UnexpectedEof")) /\ UNCHANGED <<pos, hdr>>
       ELSE LET version == from_be_bytes(file.version) IN
            /\ pos' = pos + 8
            /\ hdr' = [hdr EXCEPT !.version = version]
            /\ IF ~version_ok(version)
               THEN Return(ErrNum("UnsupportedVersion", version))
               ELSE pc' = "manifest_size" /\ ret' = ret /\ handles' = handles
    /\ max_read' = pos + 8
    /\ UNCHANGED <<inputVars, hostVars, propVars, build, manifest_buf, manifest, extVars>>

\* lines 309-339
ReadManifestSize ==
    /\ pc = "manifest_size"
    /\ IF ~CanRead(8)
       THEN Return(from_io_error("UnexpectedEof")) /\ UNCHANGED <<pos, hdr>>
       ELSE LET manifest_size == from_be_bytes(file.manifest_size) IN
            /\ pos' = pos + 8
            /\ hdr' = [hdr EXCEPT !.manifest_size = manifest_size]
            /\ IF ~manifest_size_ok(manifest_size)
               THEN Return(ErrNum("ManifestTooLarge", manifest_size))
               ELSE pc' = "signature_size" /\ ret' = ret /\ handles' = handles
    /\ max_read' = pos + 8
    /\ UNCHANGED <<inputVars, hostVars, propVars, build, manifest_buf, manifest, extVars>>

\* lines 344-359
ReadSignatureSize ==
    /\ pc = "signature_size"
    /\ IF ~CanRead(4)
       THEN Return(from_io_error("UnexpectedEof")) /\ UNCHANGED <<pos, hdr>>
       ELSE /\ pos' = pos + 4
            /\ hdr' = [hdr EXCEPT !.metadata_signature_size =
                                     from_be_bytes(file.metadata_signature_size)]
            /\ pc' = "manifest" /\ ret' = ret /\ handles' = handles
    /\ max_read' = pos + 4
    /\ UNCHANGED <<inputVars, hostVars, propVars, build, manifest_buf, manifest, extVars>>

\* lines 365-389: the cursor is put at HEADER_SIZE, manifest_data is allocated,
\* then read_exact fills it or fails
ReadManifest ==
    /\ pc = "manifest"
    /\ manifest_buf' = hdr.manifest_size
    /\ max_read' = IF HEADER_SIZE + hdr.manifest_size > max_read
                   THEN HEADER_SIZE + hdr.manifest_size ELSE max_read
    /\ IF HEADER_SIZE + hdr.manifest_size > file.len
       THEN Return(from_io_error("UnexpectedEof")) /\ pos' = HEADER_SIZE
       ELSE pos' = HEADER_SIZE + hdr.manifest_size /\ pc' = "decode" /\ ret' = ret /\ handles' = handles
    /\ UNCHANGED <<inputVars, hostVars, propVars, build, hdr, manifest, extVars>>

\* lines 411-420
DecodeManifest ==
    /\ pc = "decode"
    /\ LET m == decode(file, manifest_buf) IN
       IF m.some
       THEN manifest' = m.v /\ pc' = "summarise" /\ ret' = ret /\ handles' = handles
       ELSE manifest' = manifest /\ Return(ErrText("ProtobufDecode", "prost"))
    /\ UNCHANGED <<inputVars, hostVars, propVars, build, pos, max_read, hdr, manifest_buf, extVars>>

PartitionInfo(p) ==
    [name |-> p.partition_name, size |-> declared_size(p),
     operations_count |-> Len(p.operations)]

\* Vec::sort_by(|a, b| a.name.cmp(&b.name)): a stable sort; each element is
\* put behind the elements that do not compare greater
\* mutant of insert_by_name: an element goes before its equals (unstable)
RECURSIVE insert_before_equals(_, _)
insert_before_equals(sorted, e) ==
    IF sorted = <<>> THEN <<e>>
    ELSE IF ~str_lt(Head(sorted).name, e.name) THEN <<e>> \o sorted
    ELSE <<Head(sorted)>> \o insert_before_equals(Tail(sorted), e)

RECURSIVE insert_by_name(_, _)
insert_by_name(sorted, e) ==
    IF sorted = <<>> THEN <<e>>
    ELSE IF str_lt(e.name, Head(sorted).name) THEN <<e>> \o sorted
    ELSE <<Head(sorted)>> \o insert_by_name(Tail(sorted), e)

RECURSIVE sort_from(_, _)
sort_from(sorted, rest) ==
    IF rest = <<>> THEN sorted
    ELSE sort_from(insert_by_name(sorted, Head(rest)), Tail(rest))

sort_by_name(v) == sort_from(<<>>, v)

\* acc += s for each s of sizes, in order, modulo 2^64
RECURSIVE wrapping_sum(_, _)
wrapping_sum(acc, sizes) ==
    IF sizes = <<>> THEN acc
    ELSE wrapping_sum(wrapping_add(acc, Head(sizes)), Tail(sizes))

\* whether one of those additions leaves the u64 range
RECURSIVE sum_overflows(_, _)
sum_overflows(acc, sizes) ==
    IF sizes = <<>> THEN FALSE
    ELSE \/ ~InU64(MathAdd(acc, Head(sizes)))
         \/ sum_overflows(wrapping_add(acc, Head(sizes)), Tail(sizes))

\* What an overflowing u64 addition does depends on the build: with overflow
\* checks (debug profile) it panics, without (release profile) it wraps.  A
\* run that has seen a wrap is a run of a build without checks.
OverflowOutcomes(overflows) ==
    IF ~overflows THEN {"exact"}
    ELSE IF build.overflow_checks = "off" THEN {"wrap"}
    ELSE {"panic", "wrap"}

BuildAfter(outcome) ==
    IF outcome = "wrap" THEN [build EXCEPT !.overflow_checks = "off"] ELSE build

all_sizes(parts) == [i \in 1..Len(parts) |-> declared_size(parts[i])]

\* the total_size the loop of lines 432-454 leaves
inspect_total(parts) == wrapping_sum(Zero64, all_sizes(parts))

\* the partitions the inspection reports (lines 448-457)
inspect_partitions(parts) == sort_by_name([i \in 1..Len(parts) |-> PartitionInfo(parts[i])])

\* lines 429-463: the summaries, their total, the sort; the fields of the
\* result, which is returned once parse_payload_properties is back
Summarise ==
    /\ pc = "summarise"
    /\ \E outcome \in OverflowOutcomes(sum_overflows(Zero64, all_sizes(manifest))) :
        /\ build' = BuildAfter(outcome)
        /\ IF outcome = "panic"
           THEN pc' = "aborted" /\ ret' = ret /\ handles' = handles
           ELSE /\ ret' = [ok |-> TRUE, kind |-> "ok",
                            header |-> [version |-> hdr.version,
                                        manifest_size |-> hdr.manifest_size,
                                        metadata_signature_size |->
                                            hdr.metadata_signature_size],
                            partitions |-> inspect_partitions(manifest),
                            total_size |-> inspect_total(manifest)]
                /\ pc' = "props_open"
                /\ handles' = handles
    /\ UNCHANGED <<inputVars, hostVars, propVars, pos, max_read, hdr, manifest_buf, manifest, extVars>>

\* lines 468 and 543-563: the file beside the payload is looked for and
\* opened; without it, parse_payload_properties returns None, no line is
\* read, and inspect_payload returns (lines 469-490)
OpenProperties ==
    /\ pc = "props_open"
    /\ \E found \in {"missing", "open failed", "ok"} :
         IF found = "ok"
         THEN /\ pc' = "props_read"
              /\ props' = DefaultProperties
              /\ handles' = handles \cup {"properties"}
              /\ lines' = lines
         ELSE /\ pc' = "returned"
              /\ props' = props
              /\ handles' = handles \ {"file"}
              /\ lines' = <<>>
    /\ UNCHANGED <<inputVars, hostVars, build, inspVars, extVars>>

\* lines 565-576: one turn of the loop over reader.lines()
ReadLine ==
    /\ pc = "props_read"
    /\ lines # <<>>
    /\ props' = read_line(props, Head(lines))
    /\ lines' = Tail(lines)
    /\ UNCHANGED <<inputVars, hostVars, build, pc, inspVars, extVars, handles>>

\* line 581: Some(props), the reader goes out of scope; lines 469-490:
\* inspect_payload returns
ReturnProperties ==
    /\ pc = "props_read"
    /\ lines = <<>>
    /\ pc' = "returned"
    /\ handles' = handles \ {"properties", "file"}
    /\ UNCHANGED <<inputVars, hostVars, propVars, build, inspVars, extVars>>

parse_payload_properties == OpenProperties \/ ReadLine \/ ReturnProperties

inspect_payload ==
    \/ CheckPath
    \/ OpenFile
    \/ ReadMagic
    \/ ReadVersion
    \/ ReadManifestSize
    \/ ReadSignatureSize
    \/ ReadManifest
    \/ DecodeManifest
    \/ Summarise
    \/ parse_payload_properties

NextInspect == Begin \/ inspect_payload

\* a call of inspect_payload on its own
SpecInspect == InitInspect /\ [][NextInspect]_vars

\* parse_payload_properties on the files made of the lines of PropertyLines
InitProps ==
    /\ InitWith(Inputs("file", "ok", WellFormed(SimpleBody, 0), FALSE))
    /\ pc = "props_open"
    /\ entry = "core"
    /\ path_str = NameA
    /\ jstring = NoString
    /\ run = 1
    /\ first = NoRun
    /\ lines \in SeqsUpTo({PropertyLines[i] : i \in 1..Len(PropertyLines)}, MaxLines)

SpecProps == InitProps /\ [][parse_payload_properties]_vars

----------------------------------------------------------------------------
(* extract_payload *)

\* mutant of CurPart: the partitions are walked from the last to the first
CurPartReversed == x.partitions[Len(x.partitions) + 1 - x.part]
\* the partition and the operation the loops are at
CurPart == x.partitions[x.part]
CurOp == CurPart.operations[x.op]

\* bytes_processed as i64, total_bytes as i64: values from 2^63 on turn negative
as_i64(v) == IF AboveI64(v) THEN U64(v.hi - U64_HI_RANGE, v.lo) ELSE v

\* ((p as f64 / t as f64) * 100.0) as i32 for integers 0 <= p and 0 < t
\* below 2^12, in IEEE 754 binary64 with round to nearest, ties to even.
\* The quotient q is p / t rounded to 53 significant bits: with
\* 2^a <= p / t < 2^(a + 1), the bits are floor(p * 2^(52 - a) / t) and what
\* is cut off is rem / t units of the last place.  When 100 * p / t is no
\* integer, the two roundings are too small to cross one and the cast
\* truncates to its integer part.  When it is an integer k, q * 100.0 is k
\* unless q was rounded down by more than half the distance from k to the
\* binary64 number below k, and then the cast gives k - 1.
f64_quotient_times_100(p, t) ==
    LET AtLeast(a) == IF a >= 0 THEN t * 2^a <= p ELSE t <= p * 2^(0 - a)
        a == CHOOSE i \in (0 - 12)..12 : AtLeast(i) /\ ~AtLeast(i + 1)
        \* <<remainder, last bit>> of r * 2^n divided by t, for r < t
        RECURSIVE shifted(_, _, _)
        shifted(n, r, bit) ==
            IF n = 0 THEN <<r, bit>>
            ELSE shifted(n - 1, (2 * r) % t, (2 * r) \div t)
        cut == shifted(52 - a, p % t, (p \div t) % 2)
        rem == cut[1]
        rounded_down == rem > 0 /\ (2 * rem < t \/ (2 * rem = t /\ cut[2] = 0))
        k == (100 * p) \div t
        e == CHOOSE i \in 0..30 : 2^i <= k /\ k < 2^(i + 1)
        below == IF k = 2^e THEN 400 ELSE 200
    IN IF p = 0 THEN 0
       ELSE IF (100 * p) % t # 0 THEN k
       ELSE IF rounded_down /\ below * rem > t * 2^(e - a) THEN k - 1
       ELSE k

\* ((bytes_processed as f64 / total_bytes as f64) * 100.0) as i32 for
\* total_bytes > 0.  A value from 2^62 on is, as f64, its hi part times 2^62,
\* and the quotients of those the model reaches are exact; the cast to i32
\* saturates.
f64_percent(processed, total) ==
    IF total.hi = 0
    THEN IF processed.hi = 0 THEN f64_quotient_times_100(processed.lo, total.lo)
         ELSE I32_MAX
    ELSE IF processed.hi = 0 THEN 0 ELSE (processed.hi * 100) \div total.hi

\* lines 671-675
start_percent(processed, total) ==
    IF total # Zero64 THEN f64_percent(processed, total) ELSE 0

\* lines 755-759
end_percent(processed, total) ==
    IF total # Zero64 THEN f64_percent(processed, total) ELSE 100

\* callback(partition_name, progress_percent, bytes_processed as i64, total_bytes as i64);
\* part is a ghost field: the index of the partition the loop is at
Event(name, percent, processed, total, part) ==
    [name |-> name, percent |-> percent, processed |-> as_i64(processed),
     total |-> as_i64(total), part |-> part]

emit(ev) == IF has_callback THEN Append(events, ev) ELSE events

\* the byte of the payload file at an offset, named by the offset
FileBytes(from, n) == [i \in 1..n |-> from + i - 1]

\* xz2 / bzip2: a stream decodes iff it is not empty and starts with an even
\* byte; the output is a function of the input (an abstract codec)
stream_ok(data) == data # <<>> /\ data[1] % 2 = 0
decompress_xz(data) == [i \in 1..Len(data) |-> 1000 + data[i]]
decompress_bz2(data) == [i \in 1..Len(data) |-> 2000 + data[i]]

\* drop(writer) on a return path: BufWriter's Drop writes the buffer out
DiskAfterDrop ==
    IF writer.open
    THEN [disk EXCEPT ![writer.name].bytes = @ \o writer.buf]
    ELSE disk

\* return Err(e) from extract_payload (the ? operator)
Fail(e) ==
    /\ result' = e
    /\ pc' = "failed"
    /\ disk' = DiskAfterDrop
    /\ writer' = NoWriter
    /\ handles' = {}

\* a panic or a failed allocation: the process is gone
Abort == pc' = "aborted"

\* mutant of Inspected: output_dir is made before the inspection is looked at
Inspected_dir_first ==
    /\ pc = "returned"
    /\ entry # "inspectPayload"
    /\ out_dir_exists' = TRUE
    /\ IF ret.ok
       THEN pc' = "create_dir" /\ UNCHANGED <<result, disk, writer, handles>>
       ELSE Fail(ret)
    /\ UNCHANGED <<inputVars, hostVars, propVars, warnings, build, inspVars, x, extracted, events>>

\* line 623: let inspection = inspect_payload(payload_path)?;
Inspected ==
    /\ pc = "returned"
    /\ entry # "inspectPayload"
    /\ IF ret.ok
       THEN pc' = "create_dir" /\ UNCHANGED <<result, disk, writer, handles>>
       ELSE Fail(ret)
    /\ UNCHANGED <<inputVars, hostVars, propVars, warnings, build, inspVars, out_dir_exists, x, extracted, events>>

\* lines 626-632
CreateOutputDir ==
    /\ pc = "create_dir"
    /\ \/ /\ out_dir_exists
          /\ pc' = "reopen"
          /\ UNCHANGED <<out_dir_exists, result, disk, writer, handles>>
       \/ /\ ~out_dir_exists
          /\ \E created \in BOOLEAN :
               IF created
               THEN /\ out_dir_exists' = TRUE
                    /\ pc' = "reopen"
                    /\ UNCHANGED <<result, disk, writer, handles>>
               ELSE /\ Fail(ErrText("Io", "Failed to create output directory"))
                    /\ UNCHANGED out_dir_exists
    /\ UNCHANGED <<inputVars, hostVars, propVars, warnings, build, inspVars, x, extracted, events>>

\* lines 635-653: the payload is opened again, data_offset is computed, the
\* manifest is read and decoded a second time
Reopen ==
    /\ pc = "reopen"
    /\ \E opened \in {"ok", "NotFound", "PermissionDenied", "Other"} :
         IF opened # "ok"
         THEN Fail(from_io_error(opened)) /\ x' = x
         ELSE LET again == decode(file, ret.header.manifest_size) IN
              IF HEADER_SIZE + ret.header.manifest_size > file.len
              THEN Fail(from_io_error("UnexpectedEof")) /\ x' = x
              ELSE IF ~again.some
              THEN Fail(ErrText("ProtobufDecode", "prost")) /\ x' = x
              ELSE /\ x' = [x EXCEPT
                              !.data_offset = HEADER_SIZE + ret.header.manifest_size
                                              + ret.header.metadata_signature_size,
                              !.partitions = again.v]
                   /\ pc' = "total"
                   /\ handles' = handles \cup {"payload_file"}
                   /\ UNCHANGED <<result, disk, writer>>
    /\ UNCHANGED <<inputVars, hostVars, propVars, warnings, build, inspVars, out_dir_exists, extracted, events>>

\* filter_map(|p| p.new_partition_info.as_ref().and_then(|info| info.size))
RECURSIVE present_sizes(_)
present_sizes(parts) ==
    IF parts = <<>> THEN <<>>
    ELSE LET i == Head(parts).new_partition_info
         IN (IF i.some /\ i.v.size.some THEN <<i.v.size.v>> ELSE <<>>)
            \o present_sizes(Tail(parts))

\* lines 655-662: total_bytes = sum of the declared sizes; bytes_processed = 0
SumTotal ==
    /\ pc = "total"
    /\ \E outcome \in OverflowOutcomes(sum_overflows(Zero64, present_sizes(x.partitions))) :
        /\ build' = BuildAfter(outcome)
        /\ IF outcome = "panic"
           THEN Abort /\ x' = x
           ELSE /\ x' = [x EXCEPT
                           !.total_bytes = wrapping_sum(Zero64, present_sizes(x.partitions)),
                           !.bytes_processed = Zero64,
                           !.part = 1, !.op = 1]
                /\ pc' = "partition"
    /\ UNCHANGED <<inputVars, hostVars, propVars, warnings, inspVars, out_dir_exists, disk, writer, handles, extracted, events, result>>

\* lines 665-677: the next partition of the manifest; progress at its start
StartPartition ==
    /\ pc = "partition"
    /\ x.part <= Len(x.partitions)
    /\ events' = emit(Event(CurPart.partition_name,
                            start_percent(x.bytes_processed, x.total_bytes),
                            x.bytes_processed, x.total_bytes, x.part))
    /\ pc' = "create_file"
    /\ UNCHANGED <<inputVars, hostVars, propVars, warnings, build, inspVars, out_dir_exists, disk, x, writer, handles, extracted, result>>

\* mutant of create: the file is opened as it is, its bytes kept
create_keeping(f) == [exists |-> TRUE, bytes |-> f.bytes]
\* File::create on a path where f is: the file is made, or truncated
create(f) == [exists |-> TRUE, bytes |-> <<>>]

\* lines 679-695: File::create(output_dir/<name>.img), BufWriter::new
CreateFile ==
    /\ pc = "create_file"
    /\ \E created \in BOOLEAN :
         IF created
         THEN /\ disk' = [disk EXCEPT ![CurPart.partition_name] = create(@)]
              /\ writer' = [open |-> TRUE, name |-> CurPart.partition_name, buf |-> <<>>]
              /\ handles' = handles \cup {"output_file"}
              /\ pc' = "operation"
              /\ UNCHANGED result
         ELSE Fail(ErrText("Io", "Failed to create"))
    /\ UNCHANGED <<inputVars, hostVars, propVars, warnings, build, inspVars, out_dir_exists, x, extracted, events>>


\* data_length as usize.  On a 64-bit target the value is kept, and a vector
\* of 2^62 bytes or more cannot be allocated (capacity overflow or allocation
\* failure: the process aborts).  On a 32-bit target the value is cut to its
\* low 32 bits, which abort the same way from 2^31 on.  A run that has seen a
\* cut is a run on a 32-bit target.
UsizeOutcomes(len) ==
    IF len.hi = 0 THEN {"fits"}
    ELSE (IF build.pointer_width = "32" THEN {} ELSE {"abort"})
         \cup (IF len.lo >= 0 THEN {"cut"} ELSE {"abort"})

\* mutant of decoded: an operation of another type fails the run
decoded_or_refused(type, data) ==
    CASE type = REPLACE_XZ -> IF stream_ok(data) THEN Some(decompress_xz(data)) ELSE None
      [] type = REPLACE_BZ -> IF stream_ok(data) THEN Some(decompress_bz2(data)) ELSE None
      [] type = REPLACE -> Some(data)
      [] OTHER -> None

\* the bytes an operation contributes once its data segment is read
decoded(type, data) ==
    CASE type = REPLACE_XZ -> IF stream_ok(data) THEN Some(decompress_xz(data)) ELSE None
      [] type = REPLACE_BZ -> IF stream_ok(data) THEN Some(decompress_bz2(data)) ELSE None
      [] type = REPLACE -> Some(data)
      [] OTHER -> Some(data)

\* log::warn!("  Operation {} type {:?} not fully supported, using raw data", ..);
\* part is a ghost field: the index of the partition the loop is at
Warning(op_idx, type, part) == [op_idx |-> op_idx, type |-> type, part |-> part]

\* the arm `_` of match operation.r#type()
not_fully_supported(type) == type \notin {REPLACE_XZ, REPLACE_BZ, REPLACE}

\* lines 698-736, one operation of the current partition
Operation ==
    /\ pc = "operation"
    /\ x.op <= Len(CurPart.operations)
    /\ IF ~CurOp.data_length.some \/ CurOp.data_length.v = Zero64
       THEN \* no data segment
            /\ x' = [x EXCEPT !.op = @ + 1]
            /\ UNCHANGED <<build, pc, writer, handles, disk, result, warnings>>
       ELSE LET data_offset_in_blob == unwrap_or(CurOp.data_offset, Zero64)
                sum == MathAdd(Small(x.data_offset), data_offset_in_blob)
            IN \E outcome \in OverflowOutcomes(~InU64(sum)),
                  alloc \in UsizeOutcomes(CurOp.data_length.v) :
                 LET target == wrapping_add(Small(x.data_offset), data_offset_in_blob)
                     n == CurOp.data_length.v.lo
                     data == FileBytes(target.lo, n)
                     out == decoded(CurOp.type, data)
                 IN IF outcome = "panic"
                    THEN Abort /\ UNCHANGED <<build, x, writer, handles, disk, result, warnings>>
                    ELSE IF AboveI64(target)
                    THEN \* seek: lseek refuses a negative offset
                         /\ Fail(from_io_error("InvalidInput"))
                         /\ build' = BuildAfter(outcome)
                         /\ UNCHANGED <<x, warnings>>
                    ELSE IF alloc = "abort"
                    THEN Abort /\ build' = BuildAfter(outcome)
                         /\ UNCHANGED <<x, writer, handles, disk, result, warnings>>
                    ELSE /\ build' = [BuildAfter(outcome) EXCEPT !.pointer_width =
                                         IF alloc = "cut" THEN "32" ELSE @]
                         /\ IF n > 0 /\ (target.hi > 0 \/ target.lo + n > file.len)
                            THEN Fail(from_io_error("UnexpectedEof")) /\ UNCHANGED <<x, warnings>>
                            ELSE /\ warnings' =
                                      IF not_fully_supported(CurOp.type)
                                      THEN Append(warnings, Warning(x.op - 1, CurOp.type, x.part))
                                      ELSE warnings
                                 /\ IF ~out.some
                                    THEN Fail(ErrText("Io", "decompression failed")) /\ x' = x
                                    ELSE /\ writer' = [writer EXCEPT !.buf = @ \o out.v]
                                         /\ handles' = handles
                                         /\ x' = [x EXCEPT !.op = @ + 1]
                                         /\ UNCHANGED <<pc, disk, result>>
    /\ UNCHANGED <<inputVars, hostVars, propVars, inspVars, out_dir_exists, extracted, events>>

\* lines 738-741: writer.flush()
FlushPartition ==
    /\ pc = "operation"
    /\ x.op > Len(CurPart.operations)
    /\ \E flushed \in BOOLEAN :
         IF flushed
         THEN /\ disk' = [disk EXCEPT ![writer.name].bytes = @ \o writer.buf]
              /\ writer' = [writer EXCEPT !.buf = <<>>]
              /\ handles' = handles
              /\ pc' = "complete"
              /\ UNCHANGED result
         ELSE /\ result' = ErrText("Io", "Flush failed")
              /\ pc' = "failed"
              /\ writer' = NoWriter
              /\ handles' = {}
              /\ UNCHANGED disk
    /\ UNCHANGED <<inputVars, hostVars, propVars, warnings, build, inspVars, out_dir_exists, x, extracted, events>>

ExtractedPartition(name, size) == [name |-> name, size |-> size, path |-> name]

\* lines 744-768: the file's size, bytes_processed += partition_size, progress
\* at the end, the entry of the result; the writer is dropped with the
\* iteration
CompletePartition ==
    /\ pc = "complete"
    /\ LET partition_size == declared_size(CurPart)
           sum == MathAdd(x.bytes_processed, partition_size)
           processed == wrapping_add(x.bytes_processed, partition_size)
       IN \E outcome \in OverflowOutcomes(~InU64(sum)) :
            /\ build' = BuildAfter(outcome)
            /\ IF outcome = "panic"
               THEN Abort /\ UNCHANGED <<x, writer, handles, extracted, events>>
               ELSE /\ x' = [x EXCEPT !.bytes_processed = processed,
                                      !.part = @ + 1, !.op = 1]
                    /\ events' = emit(Event(CurPart.partition_name,
                                            end_percent(processed, x.total_bytes),
                                            processed, x.total_bytes, x.part))
                    /\ extracted' = Append(extracted,
                                           ExtractedPartition(CurPart.partition_name,
                                                              Len(disk[CurPart.partition_name].bytes)))
                    /\ writer' = NoWriter
                    /\ handles' = handles \ {"output_file"}
                    /\ pc' = "partition"
    /\ UNCHANGED <<inputVars, hostVars, propVars, warnings, inspVars, out_dir_exists, disk, result>>

\* lines 770-776
Finish ==
    /\ pc = "partition"
    /\ x.part > Len(x.partitions)
    /\ result' = [ok |-> TRUE, kind |-> "ok", status |-> "success", extracted |-> extracted]
    /\ pc' = "done"
    /\ handles' = {}
    /\ UNCHANGED <<inputVars, hostVars, propVars, warnings, build, inspVars, out_dir_exists, disk, x, writer, extracted, events>>

extract_payload ==
    \/ Inspected
    \/ CreateOutputDir
    \/ Reopen
    \/ SumTotal
    \/ StartPartition
    \/ CreateFile
    \/ Operation
    \/ FlushPartition
    \/ CompletePartition
    \/ Finish

\* partitions of the extraction runs
ExtractInfos == {None, Info(Some(Small(2))), Info(Some(Small(4))), Info(Some(Big))}
OpsWhole ==
    <<InstallOperation(REPLACE, Some(Zero64), Some(Small(4))),
      InstallOperation(REPLACE, Some(Small(4)), Some(Small(2)))>>
\* the second operation reads past the end of the file
OpsPastEnd ==
    <<InstallOperation(REPLACE, None, Some(Small(2))),
      InstallOperation(REPLACE, Some(Small(4)), Some(Small(BlobLen)))>>
ExtractParts ==
    { PartitionUpdate(n, i, ops) :
        n \in {NameA, NameB}, i \in ExtractInfos, ops \in {<<>>, OpsWhole, OpsPastEnd} }
ExtractManifests == SeqsUpTo(ExtractParts, MaxParts)

\* operations of every kind, in one partition
Operations ==
    { InstallOperation(REPLACE, Some(Small(2)), Some(Small(2))),
      InstallOperation(REPLACE, Some(Small(2)), None),
      InstallOperation(REPLACE, Some(Small(2)), Some(Zero64)),
      InstallOperation(REPLACE_XZ, Some(Zero64), Some(Small(2))),
      InstallOperation(REPLACE_XZ, Some(Small(1)), Some(Small(2))),
      InstallOperation(REPLACE_BZ, Some(Small(4)), Some(Small(2))),
      InstallOperation(ZERO, None, Some(Small(3))),
      InstallOperation(REPLACE, Some(U64_MAX), Some(Small(1))),
      InstallOperation(REPLACE, Some(Big), Some(Small(1))),
      InstallOperation(REPLACE, Some(Zero64), Some(U64(1, 2))) }
OperationManifests ==
    { <<PartitionUpdate(NameA, Info(Some(Small(4))), ops)>> : ops \in SeqsUpTo(Operations, 2) }

\* a manifest whose first partition is 29 of the 50 bytes declared
RoundingManifests ==
    { <<PartitionUpdate(NameA, Info(Some(Small(29))), <<>>),
        PartitionUpdate(NameB, Info(Some(Small(21))), <<>>)>> }

\* manifests with a partition name that leads out of output_dir
EscapeManifests ==
    { <<PartitionUpdate(NameEscape, Info(Some(Small(4))), OpsWhole)>>,
      <<PartitionUpdate(NameA, Info(Some(Small(4))), OpsWhole),
        PartitionUpdate(NameEscape, Info(Some(Small(2))), OpsWhole)>> }

ExtractInputs ==
    PathInputs
    \cup { Inputs("file", "ok", WellFormed(Body(m), 0), TRUE) :
             m \in EscapeManifests \cup RoundingManifests }
    \cup { Inputs("file", "ok", f, TRUE) : f \in HeaderFiles }
    \cup { Inputs("file", "ok", WellFormed(Body(m), 0), cb) :
             m \in ExtractManifests, cb \in BOOLEAN }
    \cup { Inputs("file", "ok", WellFormed(Body(m), 0), TRUE) : m \in OperationManifests }

Init == \E in \in ExtractInputs : InitWith(in) /\ Direct(in)

Next == Begin \/ inspect_payload \/ extract_payload

\* a call of extract_payload
Spec == Init /\ [][Next]_vars

----------------------------------------------------------------------------
(* extract_payload called a second time *)

\* the inputs of the repeated runs
TwiceInputs ==
    LET TwiceParts ==
            { PartitionUpdate(n, Info(Some(Small(4))), ops) :
                n \in {NameA, NameB}, ops \in {<<>>, OpsWhole} }
        TwiceManifests == SeqsUpTo(TwiceParts, MaxParts)
    IN PathInputs
       \cup { Inputs("file", "ok", f, TRUE) : f \in HeaderFiles }
       \cup { Inputs("file", "ok", WellFormed(Body(m), 0), TRUE) :
                m \in TwiceManifests \cup OperationManifests \cup EscapeManifests }

InitTwice == \E in \in TwiceInputs : InitWith(in) /\ Direct(in)

\* the host, after a successful call, calls extract_payload again with the
\* same arguments: the payload and the output directory are as the first
\* call left them, every local starts afresh
Again ==
    /\ pc = "done"
    /\ run = 1
    /\ run' = 2
    /\ first' = [done |-> TRUE, disk |-> disk, result |-> result]
    /\ pc' = "idle"
    /\ pos' = 0
    /\ max_read' = 0
    /\ hdr' = NoHeader
    /\ manifest_buf' = -1
    /\ manifest' = <<>>
    /\ ret' = NoReturn
    /\ x' = NoLocals
    /\ writer' = NoWriter
    /\ extracted' = <<>>
    /\ events' = <<>>
    /\ warnings' = <<>>
    /\ result' = NoReturn
    /\ lines' = <<PropertyLines[12]>>
    /\ UNCHANGED <<inputVars, jstring, props, build, out_dir_exists, disk, handles>>

NextTwice == Begin \/ inspect_payload \/ extract_payload \/ Again

\* two calls of extract_payload in a row
SpecTwice == InitTwice /\ [][NextTwice]_vars

----------------------------------------------------------------------------
(* The JNI adapter (lib.rs): inspectPayload and extractPayload *)

\* longest path text of the adapter runs
MaxPathLen == 2

\* {0} of a format string for an unsigned integer
RECURSIVE to_decimal(_)
to_decimal(n) == IF n < 10 THEN <<48 + n>> ELSE Append(to_decimal(n \div 10), 48 + (n % 10))

\* {1:08X}: w upper-case hexadecimal digits
RECURSIVE upper_hex(_, _)
upper_hex(n, w) ==
    IF w = 0 THEN <<>>
    ELSE Append(upper_hex(n \div 16, w - 1),
                IF n % 16 < 10 THEN 48 + (n % 16) ELSE 55 + (n % 16))

\* what io::Error::to_string() gives, a text of the operating system: "os error"
OsErrorText == <<111, 115, 32, 101, 114, 114, 111, 114>>

\* The String an error variant carries, as the code built it.  Every literal
\* is written as its character codes, its text in the comment above it.
Detail(e) ==
    CASE e.text = "File does not exist" ->
            \* File does not exist: 
            <<70, 105, 108, 101, 32, 100, 111, 101, 115, 32, 110, 111, 116, 32,
              101, 120, 105, 115, 116, 58, 32>>
            \o path_str
      [] e.text = "Path is not a file" ->
            \* Path is not a file: 
            <<80, 97, 116, 104, 32, 105, 115, 32, 110, 111, 116, 32, 97, 32, 102,
              105, 108, 101, 58, 32>>
            \o path_str
      [] e.text = "header or manifest" ->
            \* header or manifest
            <<104, 101, 97, 100, 101, 114, 32, 111, 114, 32, 109, 97, 110, 105,
              102, 101, 115, 116>>
      [] e.text = "prost" ->
            \* failed to decode Protobuf message
            <<102, 97, 105, 108, 101, 100, 32, 116, 111, 32, 100, 101, 99, 111,
              100, 101, 32, 80, 114, 111, 116, 111, 98, 117, 102, 32, 109, 101,
              115, 115, 97, 103, 101>>
      [] e.text = "Failed to create output directory" ->
            \* Failed to create output directory: 
            <<70, 97, 105, 108, 101, 100, 32, 116, 111, 32, 99, 114, 101, 97, 116,
              101, 32, 111, 117, 116, 112, 117, 116, 32, 100, 105, 114, 101, 99,
              116, 111, 114, 121, 58, 32>>
            \o OsErrorText
      [] e.text = "Failed to create" ->
            \* Failed to create 
            <<70, 97, 105, 108, 101, 100, 32, 116, 111, 32, 99, 114, 101, 97, 116,
              101, 32>>
            \o CurPart.partition_name \o <<58, 32>> \o OsErrorText
      [] e.text = "Flush failed" ->
            \* Flush failed for 
            <<70, 108, 117, 115, 104, 32, 102, 97, 105, 108, 101, 100, 32, 102,
              111, 114, 32>>
            \o CurPart.partition_name \o <<58, 32>> \o OsErrorText
      [] e.text = "decompression failed" /\ CurOp.type = REPLACE_XZ ->
            \* XZ decompression failed: 
            <<88, 90, 32, 100, 101, 99, 111, 109, 112, 114, 101, 115, 115, 105,
              111, 110, 32, 102, 97, 105, 108, 101, 100, 58, 32>>
            \o OsErrorText
      [] e.text = "decompression failed" /\ CurOp.type # REPLACE_XZ ->
            \* Bzip2 decompression failed: 
            <<66, 122, 105, 112, 50, 32, 100, 101, 99, 111, 109, 112, 114, 101,
              115, 115, 105, 111, 110, 32, 102, 97, 105, 108, 101, 100, 58, 32>>
            \o OsErrorText
      [] OTHER -> OsErrorText

\* impl Display for PayloadError (thiserror): e.to_string()
to_string(e) ==
    CASE e.kind = "EmptyPath" ->
            \* Path is empty
            <<80, 97, 116, 104, 32, 105, 115, 32, 101, 109, 112, 116, 121>>
      [] e.kind = "FileNotFound" ->
            \* File not found: 
            <<70, 105, 108, 101, 32, 110, 111, 116, 32, 102, 111, 117, 110, 100,
              58, 32>>
            \o Detail(e)
      [] e.kind = "PermissionDenied" ->
            \* Permission denied: 
            <<80, 101, 114, 109, 105, 115, 115, 105, 111, 110, 32, 100, 101, 110,
              105, 101, 100, 58, 32>>
            \o Detail(e)
      [] e.kind = "Io" ->
            \* IO error reading file: 
            <<73, 79, 32, 101, 114, 114, 111, 114, 32, 114, 101, 97, 100, 105, 110,
              103, 32, 102, 105, 108, 101, 58, 32>>
            \o Detail(e)
      [] e.kind = "InvalidMagic" ->
            \* Invalid magic bytes: expected 'CrAU' (0x43724155), got '
            <<73, 110, 118, 97, 108, 105, 100, 32, 109, 97, 103, 105, 99, 32, 98,
              121, 116, 101, 115, 58, 32, 101, 120, 112, 101, 99, 116, 101, 100,
              32, 39, 67, 114, 65, 85, 39, 32, 40, 48, 120, 52, 51, 55, 50, 52, 49,
              53, 53, 41, 44, 32, 103, 111, 116, 32, 39>>
            \o e.s
            \* ' (0x ... )
            \o <<39, 32, 40, 48, 120>>
            \o upper_hex(e.v, 8) \o <<41>>
      [] e.kind = "UnsupportedVersion" ->
            \* Unsupported payload version: 
            <<85, 110, 115, 117, 112, 112, 111, 114, 116, 101, 100, 32, 112, 97,
              121, 108, 111, 97, 100, 32, 118, 101, 114, 115, 105, 111, 110, 58,
              32>>
            \o to_decimal(e.v)
            \* . Only Version 2 is supported.
            \o <<46, 32, 79, 110, 108, 121, 32, 86, 101, 114, 115, 105, 111, 110, 32, 50, 32, 105,
              115, 32, 115, 117, 112, 112, 111, 114, 116, 101, 100, 46>>
      [] e.kind = "ProtobufDecode" ->
            \* Protobuf decode error: 
            <<80, 114, 111, 116, 111, 98, 117, 102, 32, 100, 101, 99, 111, 100,
              101, 32, 101, 114, 114, 111, 114, 58, 32>>
            \o Detail(e)
      [] e.kind = "ManifestTooLarge" ->
            \* Manifest too large: 
            <<77, 97, 110, 105, 102, 101, 115, 116, 32, 116, 111, 111, 32, 108, 97,
              114, 103, 101, 58, 32>>
            \o to_decimal(e.v)
            \* " bytes (max 100MB). File may be corrupted."
            \o <<32, 98, 121, 116, 101, 115, 32, 40, 109, 97, 120, 32, 49, 48, 48, 77, 66, 41, 46,
              32, 70, 105, 108, 101, 32, 109, 97, 121, 32, 98, 101, 32, 99, 111, 114, 114, 117,
              112, 116, 101, 100, 46>>
      [] e.kind = "FileTooSmall" ->
            \* File too small (
            <<70, 105, 108, 101, 32, 116, 111, 111, 32, 115, 109, 97, 108, 108, 32,
              40>>
            \o to_decimal(e.v)
            \* " bytes) to be a valid payload. Minimum size is "
            \o <<32, 98, 121, 116, 101, 115, 41, 32, 116, 111, 32, 98, 101, 32, 97, 32, 118, 97,
              108, 105, 100, 32, 112, 97, 121, 108, 111, 97, 100, 46, 32, 77, 105, 110, 105,
              109, 117, 109, 32, 115, 105, 122, 101, 32, 105, 115, 32>>
            \o to_decimal(e.min)
            \* " bytes."
            \o <<32, 98, 121, 116, 101, 115, 46>>
      [] e.kind = "UnexpectedEof" ->
            \* Unexpected end of file while reading 
            <<85, 110, 101, 120, 112, 101, 99, 116, 101, 100, 32, 101, 110, 100,
              32, 111, 102, 32, 102, 105, 108, 101, 32, 119, 104, 105, 108, 101,
              32, 114, 101, 97, 100, 105, 110, 103, 32>>
            \o Detail(e)

\* str::replace(from, to) for single characters
replace(str, from, to) == [i \in 1..Len(str) |-> IF str[i] = from THEN to ELSE str[i]]

\* format!(r#"{{"error": "{}"}}"#, e.replace('"', "'"))
inspect_error_json(e) ==
    \* {"error": "
    <<123, 34, 101, 114, 114, 111, 114, 34, 58, 32, 34>>
    \o replace(e, 34, 39) \o <<34, 125>>

\* mutant of extract_error_json: the message goes under the key "error"
extract_error_json_keyed(e) ==
    \* {"error": "
    <<123, 34, 101, 114, 114, 111, 114, 34, 58, 32, 34>>
    \o replace(e, 34, 39) \o <<34, 125>>

\* format!(r#"{{"status":"error","message":"{}"}}"#, e.replace('"', "'"))
extract_error_json(e) ==
    \* {"status":"error","message":"
    <<123, 34, 115, 116, 97, 116, 117, 115, 34, 58, 34, 101, 114, 114, 111, 114,
      34, 44, 34, 109, 101, 115, 115, 97, 103, 101, 34, 58, 34>>
    \o replace(e, 34, 39) \o <<34, 125>>

\* the error_json literals of the adapter, by what could not be fetched
error_json(failure) ==
    CASE failure = "path" ->
            \* {"error": "Failed to get path string"}
            <<123, 34, 101, 114, 114, 111, 114, 34, 58, 32, 34, 70, 97, 105, 108,
              101, 100, 32, 116, 111, 32, 103, 101, 116, 32, 112, 97, 116, 104, 32,
              115, 116, 114, 105, 110, 103, 34, 125>>
      [] failure = "payload_path" ->
            \* {"status":"error","message":"Failed to get payload path"}
            <<123, 34, 115, 116, 97, 116, 117, 115, 34, 58, 34, 101, 114, 114, 111,
              114, 34, 44, 34, 109, 101, 115, 115, 97, 103, 101, 34, 58, 34, 70,
              97, 105, 108, 101, 100, 32, 116, 111, 32, 103, 101, 116, 32, 112, 97,
              121, 108, 111, 97, 100, 32, 112, 97, 116, 104, 34, 125>>
      [] failure = "output_dir" ->
            \* {"status":"error","message":"Failed to get output directory"}
            <<123, 34, 115, 116, 97, 116, 117, 115, 34, 58, 34, 101, 114, 114, 111,
              114, 34, 44, 34, 109, 101, 115, 115, 97, 103, 101, 34, 58, 34, 70,
              97, 105, 108, 101, 100, 32, 116, 111, 32, 103, 101, 116, 32, 111,
              117, 116, 112, 117, 116, 32, 100, 105, 114, 101, 99, 116, 111, 114,
              121, 34, 125>>
      [] failure = "global_ref" ->
            \* {"status":"error","message":"Failed to create global ref for listener"}
            <<123, 34, 115, 116, 97, 116, 117, 115, 34, 58, 34, 101, 114, 114, 111,
              114, 34, 44, 34, 109, 101, 115, 115, 97, 103, 101, 34, 58, 34, 70,
              97, 105, 108, 101, 100, 32, 116, 111, 32, 99, 114, 101, 97, 116, 101,
              32, 103, 108, 111, 98, 97, 108, 32, 114, 101, 102, 32, 102, 111, 114,
              32, 108, 105, 115, 116, 101, 110, 101, 114, 34, 125>>
      [] failure = "java_vm" ->
            \* {"status":"error","message":"Failed to get JavaVM"}
            <<123, 34, 115, 116, 97, 116, 117, 115, 34, 58, 34, 101, 114, 114, 111,
              114, 34, 44, 34, 109, 101, 115, 115, 97, 103, 101, 34, 58, 34, 70,
              97, 105, 108, 101, 100, 32, 116, 111, 32, 103, 101, 116, 32, 74, 97,
              118, 97, 86, 77, 34, 125>>

\* a string made by format! or a literal
Text(chars) == [kind |-> "text", chars |-> chars]
\* the output of serde_json::to_string / to_string_pretty (not spelled out)
Serialized == [kind |-> "serde", chars |-> <<>>]
\* std::ptr::null_mut()
Null == [kind |-> "null", chars |-> <<>>]

\* match env.new_string(..) { Ok(s) => s.into_raw(), Err(_) => null_mut() }
JniReturn(str) ==
    /\ \E made \in BOOLEAN : jstring' = IF made THEN str ELSE Null
    /\ pc' = "jni_returned"

\* lib.rs 142-157 and 224-283: the arguments are fetched; the listener, when
\* there is one, is pinned and the JavaVM is fetched
GetArguments ==
    /\ pc = "jni_idle"
    /\ \E failure \in {"none", "path", "output_dir", "global_ref", "java_vm"} :
         CASE failure = "none" -> pc' = "idle" /\ jstring' = jstring
           [] failure = "path" ->
                JniReturn(Text(error_json(IF entry = "inspectPayload" THEN "path"
                                          ELSE "payload_path")))
           [] failure = "output_dir" ->
                entry = "extractPayload" /\ JniReturn(Text(error_json(failure)))
           [] failure \in {"global_ref", "java_vm"} ->
                entry = "extractPayload" /\ has_callback
                /\ JniReturn(Text(error_json(failure)))
    /\ UNCHANGED <<inputVars, run, first, propVars, build, inspVars, extVars, handles>>

\* lib.rs 160-176, payload.rs 504-529: the result of inspect_payload_json
InspectReturn ==
    /\ pc = "returned"
    /\ entry = "inspectPayload"
    /\ JniReturn(IF ret.ok THEN Serialized ELSE Text(inspect_error_json(to_string(ret))))
    /\ UNCHANGED <<inputVars, run, first, propVars, build, inspVars, extVars, handles>>

\* lib.rs 323-339, payload.rs 808-830: the result of extract_payload_json
ExtractReturn ==
    /\ pc \in {"done", "failed"}
    /\ entry = "extractPayload"
    /\ JniReturn(IF result.ok THEN Serialized
                 ELSE Text(extract_error_json(to_string(result))))
    /\ UNCHANGED <<inputVars, run, first, propVars, build, inspVars, extVars, handles>>

\* the characters a path is made of here: a letter, a double quote, a
\* backslash, a line feed
PathTexts(p) ==
    IF p = "empty" THEN {<<>>} ELSE SeqsUpTo({97, 34, 92, 10}, MaxPathLen) \ {<<>>}

\* calls through the adapter: every path failure with every path text, every
\* header failure, and the manifests of OperationManifests under a plain path
JniInputs ==
    PathInputs
    \cup { Inputs("file", "ok", f, TRUE) : f \in HeaderFiles }
    \cup { Inputs("file", "ok", WellFormed(Body(m), 0), TRUE) : m \in OperationManifests }

InitJni ==
    \E in \in JniInputs :
        /\ InitWith(in)
        /\ pc = "jni_idle"
        /\ entry \in {"inspectPayload", "extractPayload"}
        /\ path_str \in (IF in.path = "file" THEN {PlainPath(in.path)} ELSE PathTexts(in.path))
        /\ jstring = NoString
        /\ run = 1
        /\ first = NoRun
        /\ lines = <<PropertyLines[12]>>

NextJni ==
    \/ GetArguments
    \/ Begin
    \/ inspect_payload
    \/ extract_payload
    \/ InspectReturn
    \/ ExtractReturn

\* a call of inspectPayload or extractPayload from the host
SpecJni == InitJni /\ [][NextJni]_vars

----------------------------------------------------------------------------
(* Claims about inspect_payload, checked under SpecInspect *)

\* the value of big-endian bytes: the first byte is the most significant
BeValue(b) ==
    LET RECURSIVE Upto(_)
        Upto(i) == IF i = 0 THEN 0 ELSE 256 * Upto(i - 1) + b[i]
    IN Upto(Len(b))

\* the path names a readable regular file of at least 24 bytes
ReadablePayload == path = "file" /\ open_result = "ok" /\ file.len >= 24
BadMagic == ReadablePayload /\ file.magic # <<67, 114, 65, 85>>
GoodMagic == ReadablePayload /\ file.magic = <<67, 114, 65, 85>>
WrongVersion == GoodMagic /\ file.version # <<0, 0, 0, 0, 0, 0, 0, 2>>
RightVersion == GoodMagic /\ file.version = <<0, 0, 0, 0, 0, 0, 0, 2>>
HundredMiB == 104857600

\* C2: a file of at least 24 bytes whose first 4 bytes are not "CrAU" makes
\* inspect fail with InvalidMagic, carrying the observed bytes (as text, a
\* byte that is no character replaced) and their big-endian u32 value; no
\* read reaches past byte 4 of the file and no later step is entered.
C2_InvalidMagic ==
    BadMagic =>
        /\ max_read <= 4
        /\ pc \in {"idle", "check_path", "open", "magic", "returned"}
        /\ pc = "returned" =>
            /\ ~ret.ok /\ ret.kind = "InvalidMagic"
            /\ ret.v = BeValue(file.magic)
            /\ Len(ret.s) = 4
            /\ \A i \in 1..4 :
                  \/ ret.s[i] = file.magic[i]
                  \/ file.magic[i] >= 128 /\ ret.s[i] = 65533

C2_Witness ==
    /\ BadMagic /\ pc = "returned" /\ ret.kind = "InvalidMagic"
    /\ file.magic = <<67, 114, 65, 86>> /\ ret.v = 1131561302 /\ max_read = 4

\* C3: with the right magic and a version other than 2, inspect fails with
\* UnsupportedVersion carrying the version, whatever manifest_size and
\* metadata_signature_size hold; the later header fields are never judged.
C3_UnsupportedVersion ==
    WrongVersion =>
        /\ pc \in {"idle", "check_path", "open", "magic", "version", "returned"}
        /\ pc = "returned" =>
            /\ ~ret.ok /\ ret.kind = "UnsupportedVersion"
            /\ ret.v = BeValue(file.version)

C3_Witness ==
    /\ WrongVersion /\ pc = "returned" /\ ret.kind = "UnsupportedVersion" /\ ret.v = 3
    /\ BeValue(file.manifest_size) > HundredMiB
    /\ BeValue(file.metadata_signature_size) = 50

\* C4: with the right magic and version 2, a manifest_size above 100 MiB
\* makes inspect fail with ManifestTooLarge and manifest_data is never
\* allocated; a manifest_size of exactly 100 MiB is not refused as too large
\* (the buffer is allocated and the read is tried).
C4_ManifestTooLarge ==
    /\ (RightVersion /\ BeValue(file.manifest_size) > HundredMiB) =>
          /\ manifest_buf = -1
          /\ pc = "returned" =>
                ~ret.ok /\ ret.kind = "ManifestTooLarge"
                /\ ret.v = BeValue(file.manifest_size)
    /\ (RightVersion /\ BeValue(file.manifest_size) = HundredMiB /\ pc = "returned") =>
          ret.kind # "ManifestTooLarge" /\ manifest_buf = HundredMiB

C4_Witness ==
    /\ RightVersion /\ BeValue(file.manifest_size) = HundredMiB + 1
    /\ pc = "returned" /\ ret.kind = "ManifestTooLarge" /\ manifest_buf = -1

\* C5: whenever inspect succeeds on a file of length N, the returned header
\* has 24 + manifest_size + metadata_signature_size <= N.
C5_HeaderWithinFile ==
    (pc = "returned" /\ ret.ok) =>
        24 + ret.header.manifest_size + ret.header.metadata_signature_size <= file.len

\* the mathematical (unbounded) sum of the sizes of the summaries
RECURSIVE ExactSum(_)
ExactSum(infos) ==
    IF infos = <<>> THEN U64(0, 0)
    ELSE LET rest == ExactSum(Tail(infos))
         IN U64(Head(infos).size.hi + rest.hi, Head(infos).size.lo + rest.lo)

\* C7: whenever inspect succeeds, total_size is the exact sum of the sizes of
\* the returned partitions.
C7_TotalIsExactSum ==
    (pc = "returned" /\ ret.ok) => ret.total_size = ExactSum(ret.partitions)

\* a <= b in code point order
NameLeq(a, b) ==
    \E k \in 0..Len(a) :
        /\ k <= Len(b)
        /\ \A i \in 1..k : a[i] = b[i]
        /\ k = Len(a) \/ (k < Len(b) /\ a[k + 1] < b[k + 1])

\* the partitions the manifest region of the file declares
Declared == IF file.manifest_size = <<0, 0, 0, 0, 0, 0, 0, 0>> THEN <<>> ELSE file.body.partitions

Bijections(n) == {f \in [1..n -> 1..n] : \A i, j \in 1..n : i # j => f[i] # f[j]}

\* C8: whenever inspect succeeds, the returned partitions are sorted ascending
\* by name, hold exactly one summary per manifest partition (duplicates kept),
\* and summaries of equal name keep their declared relative order.
C8_SortedStable ==
    (pc = "returned" /\ ret.ok) =>
        LET out == ret.partitions
            n == Len(Declared)
        IN /\ Len(out) = n
           /\ \A i, j \in 1..n : i < j => NameLeq(out[i].name, out[j].name)
           /\ \E f \in Bijections(n) :
                /\ \A i \in 1..n :
                      /\ out[i].name = Declared[f[i]].partition_name
                      /\ out[i].operations_count = Len(Declared[f[i]].operations)
                      /\ out[i].size =
                            IF /\ Declared[f[i]].new_partition_info.some
                               /\ Declared[f[i]].new_partition_info.v.size.some
                            THEN Declared[f[i]].new_partition_info.v.size.v
                            ELSE U64(0, 0)
                /\ \A i, j \in 1..n :
                      (i < j /\ out[i].name = out[j].name) => f[i] < f[j]

C8_Witness ==
    /\ pc = "returned" /\ ret.ok /\ Len(ret.partitions) = 2
    /\ Declared[1].partition_name = <<97, 98>> /\ Declared[2].partition_name = <<97>>
    /\ ret.partitions[1].name = <<97>> /\ ret.partitions[2].name = <<97, 98>>

----------------------------------------------------------------------------
(* Claims about extract_payload, checked under Spec *)

\* the state of the run, read off the position in the code
Phase ==
    CASE pc = "idle" -> "Idle"
      [] pc \in {"check_path", "open", "magic", "version", "manifest_size",
                 "signature_size", "manifest", "decode", "summarise", "props_open",
                 "props_read", "returned"}
           -> "Inspecting"
      [] pc \in {"create_dir", "reopen", "total", "partition", "create_file",
                 "operation", "complete"} -> "Extracting"
      [] pc = "done" -> "Done"
      [] pc = "failed" -> "Failed"
      [] OTHER -> "Aborted"

Edges ==
    {<<"Idle", "Inspecting">>, <<"Inspecting", "Extracting">>, <<"Inspecting", "Failed">>,
     <<"Extracting", "Done">>, <<"Extracting", "Failed">>}

\* every declared partition has its file on disk, nothing is left in a buffer
\* and no writer is open
AllFlushedAndClosed ==
    /\ ~writer.open
    /\ writer.buf = <<>>
    /\ Len(extracted) = Len(x.partitions)
    /\ \A i \in 1..Len(x.partitions) : disk[x.partitions[i].partition_name].exists

\* C1: a run moves Idle -> Inspecting -> Extracting -> Done|Failed and along
\* no other edge; a failure moves it to Failed with that (first) error, after
\* which nothing changes; Done is entered only with the last partition's file
\* flushed and closed.
C1_StateMachine ==
    [][ /\ Phase' # Phase => <<Phase, Phase'>> \in Edges
        /\ (Phase # "Failed" /\ Phase' = "Failed") => (~result'.ok /\ result'.kind # "none")
        /\ Phase = "Failed" => (result' = result /\ x' = x /\ events' = events /\ disk' = disk)
        /\ Phase' = "Done" => AllFlushedAndClosed'
      ]_vars

\* C6: no addition of inspect or extract wraps around and none panics; no
\* step aborts the process.
C6_NoWrapNoPanic == pc # "aborted" /\ build.overflow_checks # "off"

\* C9: the progress events name the partitions in manifest-declared order, a
\* start and an end event per partition, so every event of a partition comes
\* before every event of a partition declared after it; on success extracted
\* lists the manifest's partitions in declared order.
C9_DeclaredOrder ==
    /\ \A k \in 1..Len(events) :
          /\ (k + 1) \div 2 <= Len(Declared)
          /\ events[k].name = Declared[(k + 1) \div 2].partition_name
    /\ \A i \in 1..Len(extracted) :
          /\ i <= Len(Declared)
          /\ extracted[i].name = Declared[i].partition_name
    /\ pc = "done" =>
          /\ Len(extracted) = Len(Declared)
          /\ result.ok /\ result.extracted = extracted
          /\ has_callback => Len(events) = 2 * Len(Declared)

C9_Witness ==
    /\ pc = "done" /\ Len(events) = 4
    /\ Len(extracted) = 2
    /\ extracted[1].name = <<98>> /\ extracted[2].name = <<97>>
    /\ events[2].name = <<98>> /\ events[3].name = <<97>>

\* C10: in a run with a progress callback that emitted events, the last
\* event carries percent 100 if and only if the run reached Done.
C10_HundredIffDone ==
    (has_callback /\ pc \in {"done", "failed"} /\ events # <<>>) =>
        (events[Len(events)].percent = 100 <=> pc = "done")

\* C11: across the progress events of one run the percent never decreases
\* and always lies in 0..100, also when the declared sizes add up to 0 while
\* partitions are present.
C11_PercentMonotonic ==
    /\ \A k \in 1..Len(events) : events[k].percent \in 0..100
    /\ \A k \in 1..(Len(events) - 1) : events[k].percent <= events[k + 1].percent

\* a name with a path separator or a parent-directory component
UnsafeName(n) ==
    \/ \E i \in 1..Len(n) : n[i] \in {47, 92}
    \/ n = <<46, 46>>

\* C12: no output file is ever created or opened for a partition whose name
\* holds a path separator or a parent-directory component, and a run over a
\* manifest with such a name never reaches Done (it is rejected with
\* InvalidInput("unsafe partition name")).
C12_UnsafeNameRejected ==
    /\ \A n \in DOMAIN disk : UnsafeName(n) => ~disk[n].exists
    /\ ~(writer.open /\ UnsafeName(writer.name))
    /\ pc = "done" => \A i \in 1..Len(x.partitions) : ~UnsafeName(x.partitions[i].partition_name)

\* the operation the loop is at has a type other than REPLACE, REPLACE_BZ,
\* REPLACE_XZ and a data segment of at least one byte that lies in the file
AtUnsupportedOperation ==
    /\ pc = "operation"
    /\ x.op <= Len(x.partitions[x.part].operations)
    /\ LET o == x.partitions[x.part].operations[x.op] IN
       /\ o.type \notin {"REPLACE", "REPLACE_BZ", "REPLACE_XZ"}
       /\ o.data_length.some /\ o.data_length.v.hi = 0 /\ o.data_length.v.lo > 0
       /\ o.data_offset.some => o.data_offset.v.hi = 0
       /\ 24 + ret.header.manifest_size + ret.header.metadata_signature_size
            + (IF o.data_offset.some THEN o.data_offset.v.lo ELSE 0)
            + o.data_length.v.lo <= file.len

\* the bytes of the file that are the data segment of that operation
RawSegment ==
    LET o == x.partitions[x.part].operations[x.op]
        from == 24 + ret.header.manifest_size + ret.header.metadata_signature_size
                + (IF o.data_offset.some THEN o.data_offset.v.lo ELSE 0)
    IN [i \in 1..o.data_length.v.lo |-> from + i - 1]

AtSegmentPastEnd ==
    /\ pc = "operation"
    /\ x.op <= Len(x.partitions[x.part].operations)
    /\ LET o == x.partitions[x.part].operations[x.op] IN
       /\ o.data_length.some /\ o.data_length.v.hi = 0 /\ o.data_length.v.lo > 0
       /\ o.data_offset.some => o.data_offset.v.hi = 0
       /\ 24 + ret.header.manifest_size + ret.header.metadata_signature_size
            + (IF o.data_offset.some THEN o.data_offset.v.lo ELSE 0)
            + o.data_length.v.lo > file.len

\* C16: when the read of an operation's data segment fails (the segment
\* reaches past the end of the file) the run fails with an Io error for
\* reading the data segment; the files written so far stay, the current one
\* with the bytes of the operations before the failing one.
C16_ReadFailureIsIo ==
    [][ AtSegmentPastEnd =>
          /\ pc' = "failed"
          /\ ~result'.ok /\ result'.kind = "Io" /\ result'.text = "read data segment"
          /\ \A n \in DOMAIN disk :
                /\ disk'[n].exists = disk[n].exists
                /\ disk'[n].bytes =
                      IF n = writer.name THEN disk[n].bytes \o writer.buf ELSE disk[n].bytes
      ]_vars

\* the bytes of the file that the data segments of ops cover, one segment
\* after the other, the data starting at file offset d
RECURSIVE RawImage(_, _)
RawImage(ops, d) ==
    IF ops = <<>> THEN <<>>
    ELSE LET o == Head(ops)
             len == IF o.data_length.some THEN o.data_length.v.lo ELSE 0
             off == IF o.data_offset.some THEN o.data_offset.v.lo ELSE 0
         IN [i \in 1..len |-> d + off + i - 1] \o RawImage(Tail(ops), d)

\* all operations of partition p are REPLACE
OnlyReplace(p) == \A k \in 1..Len(p.operations) : p.operations[k].type = "REPLACE"

\* C17: when a run over a manifest that declares a name more than once is
\* done, the file of that name holds the bytes of the last occurrence only,
\* and a diagnostic is recorded for every later occurrence.
C17_DuplicateOverwrites ==
    pc = "done" =>
        \A i, j \in 1..Len(Declared) :
            (i < j /\ Declared[i].partition_name = Declared[j].partition_name) =>
                /\ result.ok
                /\ \E k \in 1..Len(warnings) : warnings[k].part = j
                /\ (OnlyReplace(Declared[j])
                    /\ \A l \in (j + 1)..Len(Declared) :
                          Declared[l].partition_name # Declared[j].partition_name)
                   => disk[Declared[j].partition_name].bytes =
                        RawImage(Declared[j].operations,
                                 24 + ret.header.manifest_size
                                 + ret.header.metadata_signature_size)

\* the byte ranges [d + data_offset, d + data_offset + data_length) of the
\* payload, one after the other in the order of ops; an absent data_offset
\* is 0, an absent data_length contributes nothing; an offset from 2^62 on
\* names no byte of the payload (-1)
RECURSIVE ReplaceImage(_, _)
ReplaceImage(ops, d) ==
    IF ops = <<>> THEN <<>>
    ELSE LET o == Head(ops)
             len == IF o.data_length.some THEN o.data_length.v.lo ELSE 0
             start == MathAdd(Small(d), IF o.data_offset.some THEN o.data_offset.v ELSE Zero64)
         IN [i \in 1..len |-> IF start.hi = 0 THEN start.lo + i - 1 ELSE -1]
            \o ReplaceImage(Tail(ops), d)

\* C21: the file written for a partition whose operations are all REPLACE is
\* the concatenation of the byte ranges of its operations, in their order,
\* and the size reported for it is the sum of their data_length, whatever
\* new_partition_info.size declares.
C21_ReplaceImage ==
    /\ (pc = "complete" /\ OnlyReplace(CurPart)) =>
          disk[CurPart.partition_name].bytes = ReplaceImage(CurPart.operations, x.data_offset)
    /\ pc = "done" =>
          \A j \in 1..Len(Declared) :
             OnlyReplace(Declared[j]) =>
                result.extracted[j].size =
                    Len(ReplaceImage(Declared[j].operations, x.data_offset))

\* the sum of the sizes the first n partitions of the manifest declare
DeclaredSum(n) == ExactSum([i \in 1..n |-> [size |-> declared_size(Declared[i])]])

\* what the claim has an event carry: processed, the total, and the floor of
\* processed * 100 / total when the total is not 0
CarriesFloor(ev, processed, total) ==
    /\ ev.processed = processed
    /\ ev.total = total
    /\ total.lo > 0 => ev.percent = (processed.lo * 100) \div total.lo

\* C22: in a successful run every partition produces two progress events, one
\* at its start and one at its end, and each carries the floor of
\* processed * 100 / total_bytes when total_bytes > 0, processed being the sum
\* of the declared sizes of the partitions completed and total_bytes the sum
\* of all of them (so processed <= total_bytes, with equality at the last
\* event).  The values are compared for totals below 2^62.
C22_TwoEventsFloor ==
    (pc = "done" /\ has_callback) =>
        LET n == Len(Declared)
            total == DeclaredSum(n)
        IN /\ Len(events) = 2 * n
           /\ \A j \in 1..n :
                 /\ events[2 * j - 1].part = j /\ events[2 * j].part = j
                 /\ events[2 * j - 1].name = Declared[j].partition_name
                 /\ events[2 * j].name = Declared[j].partition_name
                 /\ total.hi = 0 =>
                       /\ CarriesFloor(events[2 * j - 1], DeclaredSum(j - 1), total)
                       /\ CarriesFloor(events[2 * j], DeclaredSum(j), total)

\* C23: when the inspection inside extract_payload fails, extract_payload
\* returns the error of the inspection and nothing else has happened:
\* output_dir is not created, no output file is created or truncated, and
\* the progress callback is not invoked.
C23_FailedInspectionOnly ==
    /\ [][Phase = "Inspecting" => out_dir_exists' = out_dir_exists]_vars
    /\ []((Phase = "Inspecting" \/ (pc = "failed" /\ ~ret.ok)) =>
            /\ events = <<>>
            /\ \A n \in DOMAIN disk : ~disk[n].exists /\ disk[n].bytes = <<>>)
    /\ []((pc = "failed" /\ ~ret.ok) => result = ret)

\* extract_payload has failed on a file with a wrong magic, before an
\* output_dir that did not exist
C23_Witness ==
    /\ pc = "failed"
    /\ ret.kind = "InvalidMagic"
    /\ result = ret
    /\ has_callback /\ events = <<>>
    /\ ~out_dir_exists

\* the buffer of the writer that a step closes was written out before (it is
\* empty), is written out by the step, or writer.flush() has just failed
FlushedBeforeDrop ==
    \/ writer.buf = <<>>
    \/ disk'[writer.name].bytes = disk[writer.name].bytes \o writer.buf
    \/ result' = ErrText("Io", "Flush failed")

----------------------------------------------------------------------------
(* Claims about parse_payload_properties, checked under SpecProps *)

\* the lines of PropertyLines without =, with a key that is none of the four,
\* or with a FILE_SIZE / METADATA_SIZE that is no unsigned integer
MalformedLines == {PropertyLines[i] : i \in {2, 3, 5, 6, 7, 9, 12, 13, 14}}

\* C19: a line without =, a line with an unknown key, and a FILE_SIZE or
\* METADATA_SIZE line whose value is no unsigned integer leave every field
\* as the lines before set it.
C19_MalformedIgnored ==
    [][ (pc = "props_read" /\ lines # <<>> /\ Head(lines) \in MalformedLines)
          => props' = props ]_vars

----------------------------------------------------------------------------
(* Claims about a repeated extract_payload, checked under SpecTwice *)

\* C18: when extract is run twice in a row on the same payload into the same
\* directory, empty before the first run, the files after the second run
\* are byte for byte those after the first, and the result (status and
\* extracted list) is the same.
C18_ExtractTwice ==
    (run = 2 /\ pc = "done") =>
        /\ first.done
        /\ \A n \in DOMAIN disk :
              disk[n].exists = first.disk[n].exists /\ disk[n].bytes = first.disk[n].bytes
        /\ result = first.result

\* both runs wrote a.img (6 bytes) and b.img
C18_Witness ==
    /\ run = 2 /\ pc = "done"
    /\ Len(disk[<<97>>].bytes) = 6 /\ disk[<<98>>].exists
    /\ Len(result.extracted) = 2

----------------------------------------------------------------------------
(* Claims about the JNI adapter, checked under SpecJni *)

\* JSON (RFC 8259): white space
RECURSIVE SkipWs(_, _)
SkipWs(s, i) == IF i <= Len(s) /\ s[i] \in {32, 9, 10, 13} THEN SkipWs(s, i + 1) ELSE i

IsHexDigit(c) == c \in (48..57) \cup (65..70) \cup (97..102)

\* JSON: i is just behind an opening quotation mark; the index just behind
\* the closing one, or 0 when the characters from i on are no string: a
\* control character, or a backslash not followed by one of " \ / b f n r t
\* or by u and four hexadecimal digits, or no closing quotation mark
RECURSIVE StringEnd(_, _)
StringEnd(s, i) ==
    IF i > Len(s) THEN 0
    ELSE IF s[i] = 34 THEN i + 1
    ELSE IF s[i] < 32 THEN 0
    ELSE IF s[i] # 92 THEN StringEnd(s, i + 1)
    ELSE IF i + 1 > Len(s) THEN 0
    ELSE IF s[i + 1] \in {34, 92, 47, 98, 102, 110, 114, 116} THEN StringEnd(s, i + 2)
    ELSE IF s[i + 1] = 117 /\ i + 5 <= Len(s) /\ \A k \in 2..5 : IsHexDigit(s[i + k])
         THEN StringEnd(s, i + 6)
    ELSE 0

NotJson == [ok |-> FALSE, members |-> <<>>]

\* JSON: the members  "key": "value", ... }  from index i on, to the end of s
RECURSIVE Members(_, _)
Members(s, i) ==
    IF i > Len(s) \/ s[i] # 34 THEN NotJson
    ELSE LET ke == StringEnd(s, i + 1) IN
    IF ke = 0 THEN NotJson
    ELSE LET c == SkipWs(s, ke) IN
    IF c > Len(s) \/ s[c] # 58 THEN NotJson
    ELSE LET v == SkipWs(s, c + 1) IN
    IF v > Len(s) \/ s[v] # 34 THEN NotJson
    ELSE LET ve == StringEnd(s, v + 1) IN
    IF ve = 0 THEN NotJson
    ELSE LET a == SkipWs(s, ve)
             m == [key |-> SubSeq(s, i + 1, ke - 2), value |-> SubSeq(s, v + 1, ve - 2)]
         IN
    IF a > Len(s) THEN NotJson
    ELSE IF s[a] = 125
         THEN IF SkipWs(s, a + 1) > Len(s) THEN [ok |-> TRUE, members |-> <<m>>] ELSE NotJson
    ELSE IF s[a] = 44
         THEN LET rest == Members(s, SkipWs(s, a + 1))
              IN IF rest.ok THEN [ok |-> TRUE, members |-> <<m>> \o rest.members] ELSE NotJson
    ELSE NotJson

\* JSON: s is an object all of whose values are strings; its members
ParseObject(s) ==
    LET i == SkipWs(s, 1) IN
    IF i > Len(s) \/ s[i] # 123 THEN NotJson
    ELSE LET j == SkipWs(s, i + 1) IN
         IF j <= Len(s) /\ s[j] = 125
         THEN IF SkipWs(s, j + 1) > Len(s) THEN [ok |-> TRUE, members |-> <<>>] ELSE NotJson
         ELSE Members(s, j)

\* C13: every string inspectPayload or extractPayload hands back for a failed
\* call is a JSON object: {"error": <string>} from inspectPayload,
\* {"status":"error","message": <string>} from extractPayload, whatever
\* characters the error message holds.
C13_ErrorJsonIsValid ==
    (pc = "jni_returned" /\ jstring.kind = "text") =>
        LET o == ParseObject(jstring.chars) IN
        /\ o.ok
        /\ entry = "inspectPayload" =>
              Len(o.members) = 1 /\ o.members[1].key = <<101, 114, 114, 111, 114>>
        /\ entry = "extractPayload" =>
              /\ Len(o.members) = 2
              /\ o.members[1].key = <<115, 116, 97, 116, 117, 115>>
              /\ o.members[1].value = <<101, 114, 114, 111, 114>>
              /\ o.members[2].key = <<109, 101, 115, 115, 97, 103, 101>>

\* the text  {"status":"error","message":"Path is empty"}
PathIsEmptyExtractJson ==
    <<123, 34, 115, 116, 97, 116, 117, 115, 34, 58, 34, 101, 114, 114, 111,
      114, 34, 44, 34, 109, 101, 115, 115, 97, 103, 101, 34, 58, 34, 80, 97,
      116, 104, 32, 105, 115, 32, 101, 109, 112, 116, 121, 34, 125>>
\* the text  {"error": "Path is empty"}
PathIsEmptyInspectJson ==
    <<123, 34, 101, 114, 114, 111, 114, 34, 58, 32, 34, 80, 97, 116, 104, 32,
      105, 115, 32, 101, 109, 112, 116, 121, 34, 125>>

\* C14: a call with the empty path fails with EmptyPath before anything else
\* is looked at (no file is opened, no directory or file is made, no progress
\* is reported), and extractPayload hands back exactly
\* {"status":"error","message":"Path is empty"}.
C14_EmptyPath ==
    path_str = <<>> =>
        /\ pc \in {"jni_idle", "idle", "check_path", "returned", "failed", "jni_returned"}
        /\ max_read = 0 /\ events = <<>> /\ \A n \in DOMAIN disk : ~disk[n].exists
        /\ pc = "returned" => ret = [ok |-> FALSE, kind |-> "EmptyPath"]
        /\ pc = "failed" => result = [ok |-> FALSE, kind |-> "EmptyPath"]
        /\ (pc = "jni_returned" /\ ret.kind # "none" /\ jstring.kind = "text") =>
              /\ entry = "extractPayload" =>
                    jstring.chars = PathIsEmptyExtractJson
              /\ entry = "inspectPayload" =>
                    jstring.chars = PathIsEmptyInspectJson

C14_Witness ==
    /\ path_str = <<>> /\ entry = "extractPayload" /\ pc = "jni_returned"
    /\ result.kind = "EmptyPath" /\ jstring.kind = "text" /\ Len(jstring.chars) = 44

====
